---- MODULE Spec2Model ----
(***************************************************************************)
(* The document merge of document-factory: MergeHelper.findAllTags and     *)
(* MergeHelper.merge (src/document-factory/src/onOpen.gs.js) with the      *)
(* document helpers findAllRanges, getStringFromRange and getDocumentParts *)
(* (src/document-factory/test/test.gs.js).                                 *)
(*                                                                         *)
(* A text is a sequence of one-character strings.  Offsets inside a text   *)
(* are the 0-based offsets of the code; the operators that cut a text      *)
(* translate them to the 1-based positions of a sequence.                  *)
(*                                                                         *)
(* The document tree is the sequence elems: the element with id i is       *)
(* elems[i], a record [type, kids, text, glyph, fmt]; kids lists the ids  *)
(* of the children in document order and fmt holds one attribute per       *)
(* character of text.  A paragraph or list item holds one                  *)
(* Text child with all its characters; that Text child is identified with  *)
(* the paragraph or list item, so that the element of a range is the       *)
(* paragraph or list item itself and element.getParent() is that same id.  *)
(***************************************************************************)
EXTENDS Integers, Sequences, FiniteSets, TLC

VARIABLES
  elems,     \* the document tree: id -> [type, kids, text, glyph]
  document,  \* the Document object: [header, body, footer, footnotes] (0 is null)
  map,       \* the field map: tag name -> value
  pc,        \* position in merge
  parts,     \* merge: const parts
  p,         \* merge: index of the next part to scan (0-based, as in the code)
  tags,      \* merge: const tags
  t,         \* merge: loop index t of the replace loop (0-based, as in the code)
  cur,       \* merge: the locals of the current iteration of the replace loop
  original,  \* history: the document tree as it was when merge was called
  consumed   \* history: the indexes of tags taken by the replace loop, in order

vars == <<elems, document, map, pc, parts, p, tags, t, cur, original, consumed>>

null == 0

LT == "<"
GT == ">"
QM == "?"
NL == "\n"

----------------------------------------------------------------------------
(* Text primitives of the platform, with the code's 0-based offsets *)

\* String.substring(a, b): the characters at 0-based offsets a .. b-1; an
\* offset below 0 counts as 0, one above the length as the length, and the
\* two are swapped when a > b
substring(s, a, b) ==
  LET Clamp(x) == IF x < 0 THEN 0 ELSE IF x > Len(s) THEN Len(s) ELSE x
      lo == IF Clamp(a) <= Clamp(b) THEN Clamp(a) ELSE Clamp(b)
      hi == IF Clamp(a) <= Clamp(b) THEN Clamp(b) ELSE Clamp(a)
  IN  SubSeq(s, lo + 1, hi)

\* deleteText taking its second offset as exclusive
deleteTextExclusive(s, a, b) == SubSeq(s, 1, a) \o SubSeq(s, b + 1, Len(s))

\* Text.deleteText(startOffset, endOffsetInclusive)
deleteText(s, a, b) == SubSeq(s, 1, a) \o SubSeq(s, b + 2, Len(s))

\* Text.insertText(offset, text)
insertText(s, pos, v) == SubSeq(s, 1, pos) \o v \o SubSeq(s, pos + 1, Len(s))

\* the attributes of the characters of a text put in by insertText or
\* insertListItem: none is set, the platform gives them those of the place
Ambient(text) == [k \in 1..Len(text) |-> "INHERIT"]

\* first position >= i of s holding a character of stop, Len(s)+1 when none
RECURSIVE RunEnd(_, _, _)
RunEnd(s, i, stop) ==
  IF i > Len(s) THEN i
  ELSE IF s[i] \in stop THEN i
  ELSE RunEnd(s, i + 1, stop)

\* String.split(separator) for a separator that is one character of seps
RECURSIVE split(_, _)
split(s, seps) ==
  LET k == RunEnd(s, 1, seps)
  IN  IF k > Len(s) THEN <<s>>
      ELSE <<SubSeq(s, 1, k - 1)>> \o split(SubSeq(s, k + 1, Len(s)), seps)

\* the texts of a sequence joined by a line break
RECURSIVE Join(_)
Join(ss) ==
  IF Len(ss) = 0 THEN <<>>
  ELSE IF Len(ss) = 1 THEN ss[1]
  ELSE ss[1] \o <<NL>> \o Join(Tail(ss))

----------------------------------------------------------------------------
(* The tag pattern '<[^<>]*<[^<>\\?]+\\??>[^<>]*>' *)

\* the pattern with "?" allowed anywhere in the inner tag: the class of the
\* tag written [^<>]+ instead of [^<>\?]+\??
patternLoose(s, i) ==
  IF i > Len(s) \/ s[i] # LT THEN 0
  ELSE
    LET j == RunEnd(s, i + 1, {LT, GT})
    IN  IF j > Len(s) \/ s[j] # LT THEN 0
        ELSE
          LET k == RunEnd(s, j + 1, {LT, GT})
          IN  IF k = j + 1 \/ k > Len(s) \/ s[k] # GT THEN 0
              ELSE
                LET m == RunEnd(s, k + 1, {LT, GT})
                IN  IF m > Len(s) \/ s[m] # GT THEN 0 ELSE m

\* the pattern with an inner tag that may be empty: the class of the tag
\* written [^<>\?]* instead of [^<>\?]+
patternEmptyName(s, i) ==
  IF i > Len(s) \/ s[i] # LT THEN 0
  ELSE
    LET j == RunEnd(s, i + 1, {LT, GT})
    IN  IF j > Len(s) \/ s[j] # LT THEN 0
        ELSE
          LET k == RunEnd(s, j + 1, {LT, GT, QM})
          IN  IF k > Len(s) THEN 0
              ELSE
                LET g == IF s[k] = QM THEN k + 1 ELSE k
                IN  IF g > Len(s) \/ s[g] # GT THEN 0
                    ELSE
                      LET m == RunEnd(s, g + 1, {LT, GT})
                      IN  IF m > Len(s) \/ s[m] # GT THEN 0 ELSE m

\* 1-based position of the last character of the match of the pattern that
\* starts at 1-based position i of s, 0 when the pattern does not match there.
\* Every run of the pattern is followed by a character outside its class, so
\* the match at a position is unique.
pattern(s, i) ==
  IF i > Len(s) \/ s[i] # LT THEN 0
  ELSE
    LET j == RunEnd(s, i + 1, {LT, GT})
    IN  IF j > Len(s) \/ s[j] # LT THEN 0
        ELSE
          LET k == RunEnd(s, j + 1, {LT, GT, QM})
          IN  IF k = j + 1 \/ k > Len(s) THEN 0
              ELSE
                LET g == IF s[k] = QM THEN k + 1 ELSE k
                IN  IF g > Len(s) \/ s[g] # GT THEN 0
                    ELSE
                      LET m == RunEnd(s, g + 1, {LT, GT})
                      IN  IF m > Len(s) \/ s[m] # GT THEN 0 ELSE m

\* findAllRanges with each search starting one character too far
RECURSIVE findTextFromSkipping(_, _, _)
findTextFromSkipping(el, s, i) ==
  IF i > Len(s) THEN <<>>
  ELSE IF pattern(s, i) > 0
       THEN <<[element |-> el, startOffset |-> i - 1,
               endOffsetInclusive |-> pattern(s, i) - 1, partial |-> TRUE]>>
            \o findTextFromSkipping(el, s, pattern(s, i) + 2)
       ELSE findTextFromSkipping(el, s, i + 1)

\* the ranges of the non-overlapping matches in one text from 1-based
\* position i on, left to right: each search starts after the previous match
RECURSIVE findTextFrom(_, _, _)
findTextFrom(el, s, i) ==
  IF i > Len(s) THEN <<>>
  ELSE IF pattern(s, i) > 0
       THEN <<[element |-> el, startOffset |-> i - 1,
               endOffsetInclusive |-> pattern(s, i) - 1, partial |-> TRUE]>>
            \o findTextFrom(el, s, pattern(s, i) + 1)
       ELSE findTextFrom(el, s, i + 1)

----------------------------------------------------------------------------
(* The element tree *)

IsContainer(id) == elems[id].type \in {"PARAGRAPH", "LIST_ITEM"}

\* Element.getParent(): the element whose children hold id, null when detached
getParent(id) ==
  IF \E q \in DOMAIN elems : \E i \in DOMAIN elems[q].kids : elems[q].kids[i] = id
  THEN CHOOSE q \in DOMAIN elems : \E i \in DOMAIN elems[q].kids : elems[q].kids[i] = id
  ELSE null

\* ContainerElement.getChildIndex(child): 0-based, -1 when id holds no such child
getChildIndex(id, child) ==
  IF \E i \in DOMAIN elems[id].kids : elems[id].kids[i] = child
  THEN (CHOOSE i \in DOMAIN elems[id].kids : elems[id].kids[i] = child) - 1
  ELSE -1

\* the paragraphs and list items below an element, in document order
RECURSIVE TextElements(_)
RECURSIVE TextElementsOf(_)
TextElementsOf(ids) ==
  IF Len(ids) = 0 THEN <<>>
  ELSE TextElements(Head(ids)) \o TextElementsOf(Tail(ids))
TextElements(id) ==
  IF IsContainer(id) THEN <<id>> ELSE TextElementsOf(elems[id].kids)

\* Element.asText().getText(): the text of a paragraph or list item, and for
\* an element with children the texts of its children joined by line breaks
RECURSIVE getText(_)
RECURSIVE getTexts(_)
getTexts(ids) ==
  IF Len(ids) = 0 THEN <<>>
  ELSE <<getText(Head(ids))>> \o getTexts(Tail(ids))
getText(id) ==
  IF IsContainer(id) THEN elems[id].text ELSE Join(getTexts(elems[id].kids))

\* is id reachable from one of the parts of the document
RECURSIVE Attached(_)
Attached(id) ==
  \/ id \in {document.header, document.body, document.footer} /\ id # null
  \/ \E i \in DOMAIN document.footnotes : document.footnotes[i] = id
  \/ getParent(id) # null /\ Attached(getParent(id))

----------------------------------------------------------------------------
(* Document helpers (test.gs.js) and MergeHelper.findAllTags *)

\* findAllRanges(docPart, pattern): docPart.findText repeated until it returns
\* null; the search walks the text elements of the part in document order
RECURSIVE findAllRangesIn(_)
findAllRangesIn(ids) ==
  IF Len(ids) = 0 THEN <<>>
  ELSE findTextFrom(Head(ids), elems[Head(ids)].text, 1)
       \o findAllRangesIn(Tail(ids))

findAllRanges(docPart) == findAllRangesIn(TextElements(docPart))

\* getStringFromRange(range)
getStringFromRange(range) ==
  LET str == getText(range.element)
  IN  IF range.partial
      THEN substring(str, range.startOffset, range.endOffsetInclusive + 1)
      ELSE str

\* findAllTags leaving the "?" at the end of the name of an optional tag
tagItemKeepingMark(range, docPart) ==
  LET match == getStringFromRange(range)
      inner == substring(match, 1, Len(match) - 1)
      a     == split(inner, {LT, GT})
      tag   == a[2]
      opt   == substring(tag, Len(tag) - 1, Len(tag)) = <<QM>>
  IN  [full  |-> match,
       range |-> range,
       text1 |-> a[1],
       tag   |-> tag,
       text2 |-> a[3],
       opt   |-> opt,
       part  |-> docPart]

\* one item of the array findAllTags returns, for one range
tagItem(range, docPart) ==
  LET match == getStringFromRange(range)
      inner == substring(match, 1, Len(match) - 1)
      a     == split(inner, {LT, GT})
      tag   == a[2]
      opt   == substring(tag, Len(tag) - 1, Len(tag)) = <<QM>>
  IN  [full  |-> match,
       range |-> range,
       text1 |-> a[1],
       tag   |-> IF opt THEN substring(tag, 0, Len(tag) - 1) ELSE tag,
       text2 |-> a[3],
       opt   |-> opt,
       part  |-> docPart]

\* MergeHelper.findAllTags(docPart)
findAllTags(docPart) ==
  LET ranges == findAllRanges(docPart)
  IN  [i \in 1..Len(ranges) |-> tagItem(ranges[i], docPart)]

\* getDocumentParts pushing the body before the header
getDocumentPartsBodyFirst(d) ==
  (IF d.body # null THEN <<d.body>> ELSE <<>>)
  \o (IF d.header # null THEN <<d.header>> ELSE <<>>)
  \o (IF d.footer # null THEN <<d.footer>> ELSE <<>>)
  \o d.footnotes

\* getDocumentParts(document)
getDocumentParts(d) ==
  (IF d.header # null THEN <<d.header>> ELSE <<>>)
  \o (IF d.body # null THEN <<d.body>> ELSE <<>>)
  \o (IF d.footer # null THEN <<d.footer>> ELSE <<>>)
  \o d.footnotes

----------------------------------------------------------------------------
(* Operations of the platform on the tree *)

\* the sequence s without its element at 1-based position i
RemoveAt(s, i) == SubSeq(s, 1, i - 1) \o SubSeq(s, i + 1, Len(s))

\* the sequence s with x put at 1-based position i
InsertAt(s, i, x) == SubSeq(s, 1, i - 1) \o <<x>> \o SubSeq(s, i, Len(s))

\* removeFromParent done as a clear() of the parent: every child is removed
removeFromParentWithSiblings(es, id) ==
  LET par == getParent(id)
  IN  IF par = null THEN es
      ELSE [es EXCEPT ![par].kids = <<>>]

\* Element.removeFromParent()
removeFromParent(es, id) ==
  LET par == getParent(id)
  IN  IF par = null THEN es
      ELSE [es EXCEPT ![par].kids = RemoveAt(@, getChildIndex(par, id) + 1)]

\* Table.removeRow called with the index of the row before
removeRowBefore(es, table, rowIndex) ==
  [es EXCEPT ![table].kids = RemoveAt(@, rowIndex)]

\* Table.removeRow(rowIndex), rowIndex 0-based
removeRow(es, table, rowIndex) ==
  [es EXCEPT ![table].kids = RemoveAt(@, rowIndex + 1)]

\* the glyph of a list item the platform has just created
DefaultGlyph == "BULLET"

\* part.insertListItem(childIndex, text): the new item gets the next free id
insertListItem(es, part, childIndex, text) ==
  LET id == Len(es) + 1
  IN  [Append(es, [type |-> "LIST_ITEM", kids |-> <<>>, text |-> text,
                   glyph |-> DefaultGlyph, fmt |-> Ambient(text)])
        EXCEPT ![part].kids = InsertAt(@, childIndex + 1, id)]

\* ListItem.setGlyphType(glyphType)
setGlyphType(es, id, glyphType) == [es EXCEPT ![id].glyph = glyphType]

\* the loop of lines 221-224 without index += 1: every item is inserted
\* right after the original one
RECURSIVE insertItemsSameIndex(_, _, _, _, _)
insertItemsSameIndex(es, part, index, lines, glyphType) ==
  IF Len(lines) = 0 THEN es
  ELSE LET es1 == insertListItem(es, part, index + 1, Head(lines))
       IN  insertItemsSameIndex(setGlyphType(es1, Len(es1), glyphType),
                                part, index, Tail(lines), glyphType)

\* the loop of lines 221-224 creating no item for an empty line
RECURSIVE insertItemsSkippingEmpty(_, _, _, _, _)
insertItemsSkippingEmpty(es, part, index, lines, glyphType) ==
  IF Len(lines) = 0 THEN es
  ELSE IF Head(lines) = <<>>
       THEN insertItemsSkippingEmpty(es, part, index, Tail(lines), glyphType)
       ELSE LET es1 == insertListItem(es, part, index + 1, Head(lines))
            IN  insertItemsSkippingEmpty(setGlyphType(es1, Len(es1), glyphType),
                                         part, index + 1, Tail(lines), glyphType)

\* the loop of lines 221-224: index += 1, then one insertion per line
RECURSIVE insertItems(_, _, _, _, _)
insertItems(es, part, index, lines, glyphType) ==
  IF Len(lines) = 0 THEN es
  ELSE LET es1 == insertListItem(es, part, index + 1, Head(lines))
       IN  insertItems(setGlyphType(es1, Len(es1), glyphType),
                       part, index + 1, Tail(lines), glyphType)

\* lines 199-214 with "tag>" deleted by the length of the tag name (tag_len)
\* instead of up to the inner ">"
replaceTextByTagLen(s, first, last, text1, tagName, text2, tagValue) ==
  LET replaceTxt == IF Len(tagValue) > 0 THEN text1 \o tagValue \o text2 ELSE <<>>
      op_size == 1
      tag_pos == first + op_size + Len(text1) + 1
      tag_len == Len(tagName)
      s1 == deleteText(s, last - op_size + 1, last)
      s2 == deleteText(s1, tag_pos, tag_pos + tag_len)
      s3 == insertText(s2, tag_pos, tagValue)
      s4 == deleteText(s3, tag_pos - op_size, tag_pos - 1)
      s5 == deleteText(s4, first, first + op_size - 1)
  IN  IF Len(replaceTxt) > 0 THEN s5 ELSE deleteText(s, first, last)

\* lines 199-214 without the condition of line 192: the prefix and suffix
\* are kept whatever the value
replaceTextUnconditional(s, first, last, text1, tagName, text2, tagValue) ==
  LET replaceTxt == text1 \o tagValue \o text2
      op_size == 1
      tag_pos == first + op_size + Len(text1) + 1
      s1 == deleteText(s, last - op_size + 1, last)
      s2 == deleteText(s1, tag_pos, last - op_size - Len(text2))
      s3 == insertText(s2, tag_pos, tagValue)
      s4 == deleteText(s3, tag_pos - op_size, tag_pos - 1)
      s5 == deleteText(s4, first, first + op_size - 1)
  IN  IF Len(replaceTxt) > 0 THEN s5 ELSE deleteText(s, first, last)

\* lines 199-214: the text of the element after the replacement
replaceText(s, first, last, text1, tagName, text2, tagValue) ==
  LET replaceTxt == IF Len(tagValue) > 0 THEN text1 \o tagValue \o text2 ELSE <<>>
      op_size == 1
      tag_pos == first + op_size + Len(text1) + 1
      tag_len == Len(tagName)
      s1 == deleteText(s, last - op_size + 1, last)
      s2 == deleteText(s1, tag_pos, last - op_size - Len(text2))
      s3 == insertText(s2, tag_pos, tagValue)
      s4 == deleteText(s3, tag_pos - op_size, tag_pos - 1)
      s5 == deleteText(s4, first, first + op_size - 1)
  IN  IF Len(replaceTxt) > 0 THEN s5 ELSE deleteText(s, first, last)

\* the replacement done with one deleteText of the whole span and one
\* insertText of replaceTxt
replaceAttributesWhole(f, first, last, text1, tagName, text2, tagValue) ==
  LET replaceTxt == IF Len(tagValue) > 0 THEN text1 \o tagValue \o text2 ELSE <<>>
  IN  insertText(deleteText(f, first, last), first, Ambient(replaceTxt))

\* lines 199-214: the attributes of the characters of the element after the
\* replacement; deleteText takes the characters away with their attributes
\* and insertText sets none
replaceAttributes(f, first, last, text1, tagName, text2, tagValue) ==
  LET replaceTxt == IF Len(tagValue) > 0 THEN text1 \o tagValue \o text2 ELSE <<>>
      op_size == 1
      tag_pos == first + op_size + Len(text1) + 1
      f1 == deleteText(f, last - op_size + 1, last)
      f2 == deleteText(f1, tag_pos, last - op_size - Len(text2))
      f3 == insertText(f2, tag_pos, Ambient(tagValue))
      f4 == deleteText(f3, tag_pos - op_size, tag_pos - 1)
      f5 == deleteText(f4, first, first + op_size - 1)
  IN  IF Len(replaceTxt) > 0 THEN f5 ELSE deleteText(f, first, last)

\* lines 244-255 with allEmpty = isEmpty: only the last cell decides
allEmptyLastCell(r) ==
  LET label == elems[r].kids[Len(elems[r].kids)]
  IN  Len(getText(label)) = 0

\* lines 244-255: are the cells of row r all empty
allEmpty(r) ==
  \A j \in DOMAIN elems[r].kids :
     LET label == elems[r].kids[j]
     IN  (label # null /\ elems[label].type = "TABLE_CELL")
            => Len(getText(label)) = 0

----------------------------------------------------------------------------
(* The documents and field maps merge is run on *)

\* number of footnotes of the largest document
MaxFootnotes == 2
\* number of lines of the longest field value
MaxLines == 3

Construct(text1, tagSpec, text2) ==
  <<LT>> \o text1 \o <<LT>> \o tagSpec \o <<GT>> \o text2 \o <<GT>>

Para(text) == [k |-> "PARAGRAPH", text |-> text, glyph |-> "", rows |-> <<>>]
Item(text, g) == [k |-> "LIST_ITEM", text |-> text, glyph |-> g, rows |-> <<>>]
Table(rows) == [k |-> "TABLE", text |-> <<>>, glyph |-> "", rows |-> rows]

\* the attributes of the characters of a text of the sample: bold, italic and
\* plain characters in turn
SampleFormat(text) ==
  [k \in 1..Len(text) |->
     IF k % 3 = 1 THEN "BOLD" ELSE IF k % 3 = 2 THEN "ITALIC" ELSE "PLAIN"]

\* the element es gets a new last child of parent
AddElement(es, parent, type, text, g) ==
  LET id == Len(es) + 1
      es1 == Append(es, [type |-> type, kids |-> <<>>, text |-> text, glyph |-> g,
                         fmt |-> SampleFormat(text)])
  IN  IF parent = null THEN es1
      ELSE [es1 EXCEPT ![parent].kids = Append(@, id)]

\* appendParagraph, appendListItem and appendTable(cells) for a list of blocks
RECURSIVE AddBlocks(_, _, _)
RECURSIVE AddRows(_, _, _)
RECURSIVE AddCells(_, _, _)
AddBlocks(es, parent, blocks) ==
  IF Len(blocks) = 0 THEN es
  ELSE LET b == Head(blocks)
           es1 == AddElement(es, parent, b.k, b.text, b.glyph)
       IN  AddBlocks(IF b.k = "TABLE" THEN AddRows(es1, Len(es1), b.rows) ELSE es1,
                     parent, Tail(blocks))
AddRows(es, table, rows) ==
  IF Len(rows) = 0 THEN es
  ELSE LET es1 == AddElement(es, table, "TABLE_ROW", <<>>, "")
       IN  AddRows(AddCells(es1, Len(es1), Head(rows)), table, Tail(rows))
AddCells(es, row, cells) ==
  IF Len(cells) = 0 THEN es
  ELSE LET es1 == AddElement(es, row, "TABLE_CELL", <<>>, "")
       IN  AddCells(AddBlocks(es1, Len(es1), Head(cells)), row, Tail(cells))

\* a section (header, body, footer, footnote contents) with its blocks
AddSection(es, type, blocks) ==
  LET es1 == AddElement(es, null, type, <<>>, "")
  IN  AddBlocks(es1, Len(es1), blocks)

A == <<"A">>
B == <<"B">>
X == <<"X">>

\* text that does not fit the grammar: '<A>', '<<A>', '<A>>' and a '?' that
\* is not the last character of the inner tag
Malformed ==
  <<LT>> \o A \o <<GT, "x", LT, LT>> \o A \o <<GT, "y", LT>> \o A \o <<GT, GT, "z">>
    \o Construct(<<>>, A \o <<QM, "b">>, <<>>)

\* text with constructs whose tag name is empty: '<<>>', '<<?>>' and '<a<>b>'
NoName ==
  Construct(<<>>, <<>>, <<>>) \o <<"x">> \o Construct(<<>>, <<QM>>, <<>>) \o <<"y">>
    \o Construct(<<"a">>, <<>>, <<"b">>)

\* texts of the paragraph under test
ParaTexts ==
  { <<"a">> \o Construct(<<>>, A, <<>>) \o <<"b">>,
    <<"a">> \o Construct(<<"p">>, A, <<"s">>) \o <<"b">>,
    Construct(<<"p">>, A \o <<QM>>, <<>>),
    Construct(<<>>, A, <<>>),
    Construct(<<>>, X, <<>>),
    Construct(<<"p">>, X \o <<QM>>, <<"s">>),
    Construct(<<>>, A, <<>>) \o <<"b">> \o Construct(<<"p">>, B \o <<QM>>, <<"s">>)
       \o Construct(<<>>, X, <<>>),
    Construct(<<>>, X, <<>>) \o Construct(<<>>, A, <<"s">>),
    <<LT>> \o Construct(<<>>, A, <<>>) \o <<LT>> \o B \o <<GT, GT>>,
    <<LT>> \o Construct(<<>>, A, <<>>) \o <<GT>>,
    Construct(<<>>, <<"a">>, <<>>) \o Construct(<<>>, <<"A", " ">>, <<>>)
       \o Construct(<<>>, A, <<>>),
    Malformed \o Construct(<<>>, A, <<>>),
    NoName \o Construct(<<>>, A, <<>>) }

\* texts of the list item under test
ItemTexts ==
  { Construct(<<>>, A, <<>>),
    <<"a">> \o Construct(<<>>, A, <<>>),
    Construct(<<"p">>, A, <<>>),
    Construct(<<>>, X \o <<QM>>, <<>>),
    Construct(<<>>, A \o <<QM>>, <<>>),
    Construct(<<>>, A, <<>>) \o Construct(<<>>, B \o <<QM>>, <<>>),
    <<>> }

Glyphs == {"NUMBER", "SQUARE_BULLET"}

\* contents of the first and second cell of the table row under test
Cell1 ==
  { <<Para(<<>>)>>, <<>>, <<Para(<<"a">>)>>, <<Para(Construct(<<>>, B \o <<QM>>, <<>>))>>,
    <<Para(Construct(<<>>, X, <<>>))>> }
Cell2 ==
  { <<Para(Construct(<<>>, A, <<>>))>>,
    <<Para(Construct(<<>>, B \o <<QM>>, <<>>)), Para(<<"n">>)>>,
    <<Item(Construct(<<>>, A, <<>>), "NUMBER")>>,
    <<Para(<<>>)>> }

\* the block under test
Blocks ==
  {Para(x) : x \in ParaTexts}
  \cup {Item(x, g) : x \in ItemTexts, g \in Glyphs}
  \cup {Table(<< << <<Para(<<"h">>)>>, <<Para(<<"h">>)>> >>,
                 <<c1, c2>>,
                 << <<Para(<<"a">>)>>, <<Para(Construct(<<>>, A, <<>>))>> >> >>)
          : c1 \in Cell1, c2 \in Cell2}

\* the body: the block under test between two paragraphs, or three blocks
Bodies ==
  {<<Para(<<"i">>), b, Para(<<"z">> \o Construct(<<>>, B \o <<QM>>, <<>>))>> : b \in Blocks}

\* a footnote's contents
Footnote ==
  <<Para(Construct(<<"n">>, A, <<>>) \o <<"x">> \o Construct(<<>>, X \o <<QM>>, <<>>))>>

\* a document: body first, then the optional header and footer, then footnotes
RECURSIVE AddFootnotes(_, _)
AddFootnotes(d, n) ==
  IF n = 0 THEN d
  ELSE LET es1 == AddSection(d.elems, "FOOTNOTE_SECTION", Footnote)
       IN  AddFootnotes([d EXCEPT !.elems = es1,
                                  !.footnotes = Append(@, Len(d.elems) + 1)], n - 1)

Doc(body, hasHeader, hasFooter, n) ==
  LET e1 == AddSection(<<>>, "BODY_SECTION", body)
      e2 == IF hasHeader
            THEN AddSection(e1, "HEADER_SECTION", <<Para(<<"h">> \o Construct(<<>>, A, <<>>))>>)
            ELSE e1
      e3 == IF hasFooter
            THEN AddSection(e2, "FOOTER_SECTION", <<Para(Construct(<<>>, B \o <<QM>>, <<>>))>>)
            ELSE e2
  IN  AddFootnotes([elems |-> e3, body |-> 1,
                    header |-> IF hasHeader THEN Len(e1) + 1 ELSE null,
                    footer |-> IF hasFooter THEN Len(e2) + 1 ELSE null,
                    footnotes |-> <<>>], n)

\* the parts a document has: header or not, footer or not, number of footnotes
Layouts ==
  {<<h, f, 0>> : h \in BOOLEAN, f \in BOOLEAN}
  \cup {<<h, h, n>> : h \in BOOLEAN, n \in 1..MaxFootnotes}

\* a value of n lines, the i-th line being the i-th letter
Letters == <<"v", "w", "x", "y", "z">>
RECURSIVE LinesValue(_, _)
LinesValue(i, n) ==
  IF i > n THEN <<>>
  ELSE <<Letters[i]>> \o (IF i < n THEN <<NL>> ELSE <<>>) \o LinesValue(i + 1, n)

AValues ==
  { <<>>, <<NL, "w">>, <<NL, "w", NL>>, <<"v", NL, NL, "w">>, Construct(<<>>, B, <<>>) }
  \cup {LinesValue(1, n) : n \in 1..MaxLines}

\* the field maps: A is always a key, B is a key or not, X never is; B is a
\* key beside the one-line values of A; one map has the empty name as a key
FieldMaps ==
  {[k \in {A} |-> a] : a \in AValues}
  \cup {[k \in {A, B} |-> IF k = A THEN a ELSE b] :
           a \in {<<>>, <<"v">>, Construct(<<>>, B, <<>>)}, b \in {<<>>, <<"w">>}}
  \cup {[k \in {A, <<>>} |-> IF k = A THEN <<"v">> ELSE <<"e">>]}

----------------------------------------------------------------------------
(* MergeHelper.merge(document, map) *)

NoCur ==
  [element |-> null, first |-> 0, last |-> 0, text1 |-> <<>>, text2 |-> <<>>,
   tagValue |-> <<>>, lines |-> <<>>, isFullRep |-> FALSE, isNewItemsCase |-> FALSE,
   cell |-> null,
   textBefore |-> <<>>, fmtBefore |-> <<>>]

Init ==
  \E body \in Bodies, l \in Layouts, m \in FieldMaps :
     LET d == Doc(body, l[1], l[2], l[3])
     IN  /\ elems = d.elems
         /\ document = [header |-> d.header, body |-> d.body, footer |-> d.footer,
                        footnotes |-> d.footnotes]
         /\ map = m
         /\ pc = "start"
         /\ parts = <<>>
         /\ p = 0
         /\ tags = <<>>
         /\ t = 0
         /\ cur = NoCur
         /\ original = d.elems
         /\ consumed = <<>>

\* line 118: const parts = getDocumentParts(document)
GetParts ==
  /\ pc = "start"
  /\ parts' = getDocumentParts(document)
  /\ pc' = "scan"
  /\ UNCHANGED <<elems, document, map, p, tags, t, cur, original, consumed>>

\* lines 121-127: one iteration of the scan loop
ScanPart ==
  /\ pc = "scan"
  /\ p < Len(parts)
  /\ tags' = tags \o findAllTags(parts[p + 1])
  /\ p' = p + 1
  /\ UNCHANGED <<elems, document, map, pc, parts, t, cur, original, consumed>>

\* line 130 with the loop starting one tag too low
lastIndexShort == Len(tags) - 2

\* line 130: the index the replace loop starts from
lastIndex == Len(tags) - 1

\* line 130 reached while parts are still to be scanned
ScanDoneEarly ==
  /\ pc = "scan"
  /\ p >= 1
  /\ t' = lastIndex
  /\ pc' = "loop"
  /\ UNCHANGED <<elems, document, map, parts, p, tags, cur, original, consumed>>

\* line 130: the scan loop has ended, var t = tags.length - 1
ScanDone ==
  /\ pc = "scan"
  /\ p >= Len(parts)
  /\ t' = lastIndex
  /\ pc' = "loop"
  /\ UNCHANGED <<elems, document, map, parts, p, tags, cur, original, consumed>>

\* the replace loop walking the tags from the first to the last
tagForward == tags[Len(tags) - t]

\* the tag of the current iteration
tag == tags[t + 1]

\* a tag name without its blanks and in upper case
RECURSIVE Fold(_)
Fold(name) ==
  IF Len(name) = 0 THEN <<>>
  ELSE (IF Head(name) = " " THEN <<>>
        ELSE IF Head(name) = "a" THEN <<"A">>
        ELSE <<Head(name)>>) \o Fold(Tail(name))

\* line 138 with the "?" of an optional tag kept in the name looked up
tagIsKnownWithMark ==
  (tag.tag \o (IF tag.opt THEN <<QM>> ELSE <<>>)) \in DOMAIN map

\* line 138
tagIsKnown == tag.tag \in DOMAIN map

\* lines 142-150 with the test of the optional marker inverted
isSkippedInverted == ~tagIsKnown /\ tag.opt

\* lines 142-150: the tag is unknown and not optional
isSkipped == ~tagIsKnown /\ ~tag.opt

\* lines 141-154 with the name of an unknown optional tag as its value
resolveValueName == IF tagIsKnown THEN map[tag.tag] ELSE tag.tag

\* lines 141-154: the value to substitute to the tag
resolveValue == IF tagIsKnown THEN map[tag.tag] ELSE <<>>

\* lines 142-150: the tag is unknown and not optional: continue
Skip ==
  /\ pc = "loop"
  /\ t >= 0
  /\ isSkipped
  /\ t' = t - 1
  /\ consumed' = Append(consumed, t)
  /\ UNCHANGED <<elems, document, map, pc, parts, p, tags, cur, original>>

\* line 167 without the test of the prefix and the suffix
isFullReplacementAnyAffix == tag.full = getText(tag.range.element)

\* line 167 without the comparison with the text of the element
isFullReplacementNoTextTest == tag.text1 = <<>> /\ tag.text2 = <<>>

\* line 167: isFullRep, with the text the element has when the tag is processed
isFullReplacement ==
  tag.full = getText(tag.range.element) /\ tag.text1 = <<>> /\ tag.text2 = <<>>

\* lines 132-187: the value and the locals of an iteration that is not skipped
Resolve ==
  /\ pc = "loop"
  /\ t >= 0
  /\ ~isSkipped
  /\ LET tagValue  == resolveValue
         element   == tag.range.element
         isFullRep == isFullReplacement
         isItem    == elems[element].type = "LIST_ITEM"
         lines     == split(tagValue, {NL})
         isNewItemsCase == isItem /\ isFullRep /\ Len(lines) > 0
     IN  cur' = [element  |-> element,
                 first    |-> tag.range.startOffset,
                 last     |-> tag.range.endOffsetInclusive,
                 text1    |-> tag.text1,
                 text2    |-> tag.text2,
                 tagValue |-> IF isNewItemsCase THEN Head(lines) ELSE tagValue,
                 lines    |-> IF isNewItemsCase THEN Tail(lines) ELSE lines,
                 isFullRep |-> isFullRep,
                 isNewItemsCase |-> isNewItemsCase,
                 cell     |-> null,
                 textBefore |-> getText(element),
                 fmtBefore |-> elems[element].fmt]
  /\ pc' = "replace"
  /\ consumed' = Append(consumed, t)
  /\ UNCHANGED <<elems, document, map, parts, p, tags, t, original>>

\* lines 189-214: the replacement in the text element
Replace ==
  /\ pc = "replace"
  /\ elems' = [elems EXCEPT
                 ![cur.element].text =
                    replaceText(@, cur.first, cur.last, cur.text1, tag.tag, cur.text2,
                                cur.tagValue),
                 ![cur.element].fmt =
                    replaceAttributes(@, cur.first, cur.last, cur.text1, tag.tag,
                                      cur.text2, cur.tagValue)]
  /\ pc' = "items"
  /\ UNCHANGED <<document, map, parts, p, tags, t, cur, original, consumed>>

\* line 217: not the new items case
NoNewItems ==
  /\ pc = "items"
  /\ ~cur.isNewItemsCase
  /\ pc' = "cleanup"
  /\ UNCHANGED <<elems, document, map, parts, p, tags, t, cur, original, consumed>>

\* lines 217-225: one new list item per remaining line, after the item
NewItems ==
  /\ pc = "items"
  /\ cur.isNewItemsCase
  /\ getChildIndex(tag.part, cur.element) >= 0
  /\ elems' = insertItems(elems, tag.part, getChildIndex(tag.part, cur.element),
                          cur.lines, elems[cur.element].glyph)
  /\ pc' = "cleanup"
  /\ UNCHANGED <<document, map, parts, p, tags, t, cur, original, consumed>>

\* line 219 raising, with the document put back as it was passed
NewItemsThrowsRollback ==
  /\ pc = "items"
  /\ cur.isNewItemsCase
  /\ getChildIndex(tag.part, cur.element) < 0
  /\ pc' = "failed"
  /\ elems' = original
  /\ UNCHANGED <<document, map, parts, p, tags, t, cur, original, consumed>>

\* line 219: part.getChildIndex(parent) for a list item that is no child of
\* the part: the call raises an exception, which ends merge
NewItemsThrows ==
  /\ pc = "items"
  /\ cur.isNewItemsCase
  /\ getChildIndex(tag.part, cur.element) < 0
  /\ pc' = "failed"
  /\ UNCHANGED <<elems, document, map, parts, p, tags, t, cur, original, consumed>>

\* lines 228-231 with the test of the empty text left out: the parent is kept
CleanupKeepAlways ==
  /\ pc = "cleanup"
  /\ pc' = "loop"
  /\ t' = t - 1
  /\ UNCHANGED <<elems, document, map, parts, p, tags, cur, original, consumed>>

\* lines 228-231: the parent paragraph or item is not empty
CleanupKeep ==
  /\ pc = "cleanup"
  /\ Len(getText(cur.element)) # 0
  /\ pc' = "loop"
  /\ t' = t - 1
  /\ UNCHANGED <<elems, document, map, parts, p, tags, cur, original, consumed>>

\* lines 231-242: the parent paragraph or item is empty: it is removed
CleanupRemove ==
  /\ pc = "cleanup"
  /\ Len(getText(cur.element)) = 0
  /\ LET cell == getParent(cur.element)
         isCell == cell # null /\ elems[cell].type = "TABLE_CELL"
         r == IF isCell THEN getParent(cell) ELSE null
         isRow == r # null /\ elems[r].type = "TABLE_ROW"
     IN  /\ elems' = removeFromParent(elems, cur.element)
         /\ cur' = [cur EXCEPT !.cell = cell]
         /\ IF isCell /\ isRow
            THEN pc' = "row" /\ t' = t
            ELSE pc' = "loop" /\ t' = t - 1
  /\ UNCHANGED <<document, map, parts, p, tags, original, consumed>>

\* lines 244-261: the cells of the row are all empty: the row is removed
RowRemove ==
  /\ pc = "row"
  /\ LET r == getParent(cur.cell)
         table == getParent(r)
     IN  /\ allEmpty(r)
         /\ elems' = removeRow(elems, table, getChildIndex(table, r))
  /\ pc' = "loop"
  /\ t' = t - 1
  /\ UNCHANGED <<document, map, parts, p, tags, cur, original, consumed>>

\* lines 244-261 with the row kept whatever its cells hold
RowKeepAlways ==
  /\ pc = "row"
  /\ pc' = "loop"
  /\ t' = t - 1
  /\ UNCHANGED <<elems, document, map, parts, p, tags, cur, original, consumed>>

\* lines 244-256: a cell of the row is not empty
RowKeep ==
  /\ pc = "row"
  /\ ~allEmpty(getParent(cur.cell))
  /\ pc' = "loop"
  /\ t' = t - 1
  /\ UNCHANGED <<elems, document, map, parts, p, tags, cur, original, consumed>>

\* line 130: t < 0, merge returns
Return ==
  /\ pc = "loop"
  /\ t < 0
  /\ pc' = "done"
  /\ UNCHANGED <<elems, document, map, parts, p, tags, t, cur, original, consumed>>

Next ==
  \/ GetParts
  \/ ScanPart
  \/ ScanDone
  \/ Skip
  \/ Resolve
  \/ Replace
  \/ NoNewItems
  \/ NewItems
  \/ NewItemsThrows
  \/ CleanupKeep
  \/ CleanupRemove
  \/ RowRemove
  \/ RowKeep
  \/ Return

Spec == Init /\ [][Next]_vars

----------------------------------------------------------------------------
(* Properties *)

\* the text of the container of the current tag before and behind the span
\* of the tag, as it was just before the edit
textBeforeSpan == SubSeq(cur.textBefore, 1, cur.first)
textAfterSpan == SubSeq(cur.textBefore, cur.last + 2, Len(cur.textBefore))

\* the state right after the edit of the current tag
Edited == pc = "items"

\* does text sub occur in text s
Occurs(sub, s) ==
  \E i \in 0..(Len(s) - Len(sub)) : SubSeq(s, i + 1, i + Len(sub)) = sub

\* the tag at 1-based index i of the flat sequence is skipped by merge
SkippedTag(i) == tags[i].tag \notin DOMAIN map /\ ~tags[i].opt

\* C1: right after the edit of a match whose tag name is a key with a
\* non-empty value v, and that is not a list item's full replacement, the
\* text of the container is textBefore + prefix + v + suffix + textAfter
C1_SpanReplaced ==
  (Edited /\ tag.tag \in DOMAIN map /\ Len(map[tag.tag]) > 0 /\ ~cur.isNewItemsCase)
     => elems[cur.element].text =
          textBeforeSpan \o tag.text1 \o map[tag.tag] \o tag.text2 \o textAfterSpan

\* C1: an optional tag with a prefix and a suffix, text before and after the
\* span, has been replaced by a non-empty value
C1_Witness ==
  /\ Edited /\ tag.tag \in DOMAIN map /\ Len(map[tag.tag]) > 0 /\ ~cur.isNewItemsCase
  /\ tag.text1 # <<>> /\ tag.text2 # <<>>
  /\ textBeforeSpan # <<>> /\ textAfterSpan # <<>>
  /\ elems[cur.element].text =
       textBeforeSpan \o tag.text1 \o map[tag.tag] \o tag.text2 \o textAfterSpan

\* C2: when merge starts processing a match it will apply, the container of
\* the match is attached to the document and holds the full text of the match
\* between the offsets recorded by the scan
C2_OffsetsStillValid ==
  (pc = "loop" /\ t >= 0 /\ (tag.tag \in DOMAIN map \/ tag.opt))
     => /\ Attached(tag.range.element)
        /\ substring(elems[tag.range.element].text, tag.range.startOffset,
                     tag.range.endOffsetInclusive + 1) = tag.full

\* C2: merge starts processing a match after it has applied a later match of
\* the same container, and after it has removed a container and inserted
\* list items or not
C2_Witness ==
  /\ pc = "loop" /\ t >= 0 /\ (tag.tag \in DOMAIN map \/ tag.opt)
  /\ \E j \in (t + 2)..Len(tags) :
        /\ tags[j].range.element = tag.range.element
        /\ ~SkippedTag(j)
        /\ elems[tag.range.element].text # original[tag.range.element].text
  /\ \E id \in DOMAIN original : IsContainer(id) /\ ~Attached(id)

\* C3: once the scan is over, the container of every match that merge skips
\* (tag name not a key of the map, not optional) stays attached to the
\* document and holds the full text of the match, and the step that skips a
\* match changes nothing in the document
C3_SkippedUntouched ==
  /\ [](pc \notin {"start", "scan"} =>
          \A i \in DOMAIN tags :
             SkippedTag(i) =>
                /\ Attached(tags[i].range.element)
                /\ Occurs(tags[i].full, elems[tags[i].range.element].text))
  /\ [][(pc = "loop" /\ t >= 0 /\ SkippedTag(t + 1)) => elems' = elems]_vars

\* C3: merge has returned after skipping a match whose name differs from a
\* key only by case, in a container another match of which was applied
C3_Witness ==
  /\ pc = "done"
  /\ \E i \in DOMAIN tags :
        /\ SkippedTag(i)
        /\ Fold(tags[i].tag) \in DOMAIN map
        /\ elems[tags[i].range.element].text # original[tags[i].range.element].text
        /\ Occurs(tags[i].full, elems[tags[i].range.element].text)

\* C4: right after the edit of an optional match whose tag name is not a key,
\* the text of the container is textBefore + textAfter
C4_OptionalUnknownDeleted ==
  (Edited /\ tag.tag \notin DOMAIN map /\ tag.opt)
     => elems[cur.element].text = textBeforeSpan \o textAfterSpan

\* C4: an optional unknown tag with a prefix and a suffix has been deleted
C4_Witness ==
  /\ Edited /\ tag.tag \notin DOMAIN map /\ tag.opt
  /\ tag.text1 # <<>> /\ tag.text2 # <<>>
  /\ Len(elems[cur.element].text) = Len(cur.textBefore) - Len(tag.full)

\* C5: right after the edit of a match whose tag name is a key with the empty
\* string as value, the text of the container is textBefore + textAfter,
\* with or without the optional marker
C5_EmptyValueDeleted ==
  (Edited /\ tag.tag \in DOMAIN map /\ map[tag.tag] = <<>>)
     => elems[cur.element].text = textBeforeSpan \o textAfterSpan

\* C5: a tag without the optional marker, with a prefix and a suffix, whose
\* value is empty has been deleted
C5_Witness ==
  /\ Edited /\ tag.tag \in DOMAIN map /\ map[tag.tag] = <<>>
  /\ ~tag.opt /\ tag.text1 # <<>> /\ tag.text2 # <<>>
  /\ Len(elems[cur.element].text) = Len(cur.textBefore) - Len(tag.full)

\* the tags a scan of the document finds now, part after part
RECURSIVE scanParts(_)
scanParts(ps) ==
  IF Len(ps) = 0 THEN <<>>
  ELSE findAllTags(Head(ps)) \o scanParts(Tail(ps))

Rescan == scanParts(getDocumentParts(document))

\* when merge was called, every "<" and ">" of the document was inside a
\* match of the scan
BracketsOnlyInTags ==
  \A id \in DOMAIN original :
     \A k \in DOMAIN original[id].text :
        original[id].text[k] \in {LT, GT}
           => \E i \in DOMAIN tags :
                 /\ tags[i].range.element = id
                 /\ tags[i].range.startOffset <= k - 1
                 /\ k - 1 <= tags[i].range.endOffsetInclusive

\* no value of the field map holds "<" or ">"
ValuesBracketFree ==
  \A key \in DOMAIN map : \A k \in DOMAIN map[key] : map[key][k] \notin {LT, GT}

\* C6 as stated: when merge has returned, a new scan of the document finds no
\* match whose tag name is a key of the field map
C6_NoKnownTagLeft ==
  pc = "done" => \A i \in DOMAIN Rescan : Rescan[i].tag \notin DOMAIN map

\* C6 amended: when merge has returned on a document all of whose brackets
\* were inside scanned matches, with a field map whose values hold no
\* bracket, a new scan finds no match whose tag name is a key of the map
C6_NoKnownTagLeftWellFormed ==
  (pc = "done" /\ BracketsOnlyInTags /\ ValuesBracketFree)
     => \A i \in DOMAIN Rescan : Rescan[i].tag \notin DOMAIN map

\* C6: merge has returned on such a document after replacing a tag by a
\* non-empty value, and the new scan still finds the skipped tags
C6_Witness ==
  /\ pc = "done" /\ BracketsOnlyInTags /\ ValuesBracketFree
  /\ \E i \in DOMAIN tags : tags[i].tag \in DOMAIN map /\ Len(map[tags[i].tag]) > 0
  /\ Len(Rescan) > 0
  /\ \A i \in DOMAIN Rescan : Rescan[i].tag \notin DOMAIN map

\* the match at 1-based index i has been processed
Processed(i) ==
  \/ pc \in {"loop", "done"} /\ i > t + 1
  \/ pc = "failed" /\ i >= t + 1

\* C7 as stated: once an applied match has been processed, its paragraph or
\* list item is out of the document if its text is empty, and in the document
\* if its text is not empty
C7_EmptiedContainerRemoved ==
  \A i \in DOMAIN tags :
     (Processed(i) /\ ~SkippedTag(i))
        => (Len(elems[tags[i].range.element].text) = 0
              <=> ~Attached(tags[i].range.element))

\* the number of list items of the document
ListItemCount ==
  Cardinality({id \in DOMAIN elems : elems[id].type = "LIST_ITEM" /\ Attached(id)})

\* C8: for a list item that is a direct child of its part, whose whole text is
\* one construct without prefix and suffix, and a value of n lines whose first
\* line is not empty: after the step that creates the items, the text of the
\* item is the first line, the n-1 other lines are new list items right after
\* it, in the order of the lines, with the glyph of the item, the other
\* children of the part are the same, and there are n-1 more list items
C8_ListItemExpansion ==
  [][ (/\ pc = "items" /\ pc' = "cleanup"
       /\ elems[cur.element].type = "LIST_ITEM"
       /\ getParent(cur.element) = tag.part
       /\ cur.textBefore = tag.full /\ tag.text1 = <<>> /\ tag.text2 = <<>>
       /\ tag.tag \in DOMAIN map
       /\ split(map[tag.tag], {NL})[1] # <<>>)
      => LET lines == split(map[tag.tag], {NL})
             n     == Len(lines)
             idx   == getChildIndex(tag.part, cur.element)
             kids  == elems[tag.part].kids
             kidsN == elems'[tag.part].kids
         IN  /\ elems'[cur.element].text = lines[1]
             /\ Len(kidsN) = Len(kids) + n - 1
             /\ SubSeq(kidsN, 1, idx + 1) = SubSeq(kids, 1, idx + 1)
             /\ SubSeq(kidsN, idx + n + 1, Len(kidsN)) = SubSeq(kids, idx + 2, Len(kids))
             /\ \A k \in 2..n :
                   /\ kidsN[idx + k] \notin DOMAIN elems
                   /\ elems'[kidsN[idx + k]].type = "LIST_ITEM"
                   /\ elems'[kidsN[idx + k]].text = lines[k]
                   /\ elems'[kidsN[idx + k]].glyph = elems[cur.element].glyph
             /\ ListItemCount' = ListItemCount + n - 1 ]_vars

\* C8: a list item of the body has been expanded with a value of three lines
\* or more
C8_Witness ==
  /\ pc = "cleanup" /\ cur.isNewItemsCase
  /\ getParent(cur.element) = tag.part
  /\ tag.tag \in DOMAIN map
  /\ Len(split(map[tag.tag], {NL})) >= 3
  /\ elems[cur.element].text = split(map[tag.tag], {NL})[1]
  /\ elems[cur.element].text # <<>>
  /\ Len(elems) = Len(original) + Len(split(map[tag.tag], {NL})) - 1

\* the cells of row r all have an empty text
RowIsEmpty(r) == \A j \in DOMAIN elems[r].kids : getText(elems[r].kids[j]) = <<>>

\* C9: when the paragraph emptied by an edit has been removed from a table
\* cell and every cell of the row of that cell has an empty text, the row
\* check of the same iteration removes the row: the table has one row fewer,
\* the other rows are in the same order, and the loop moves to the next match
C9_EmptyRowRemoved ==
  [][ (pc = "row" /\ RowIsEmpty(getParent(cur.cell)))
      => LET r     == getParent(cur.cell)
             table == getParent(r)
             rows  == elems[table].kids
             i     == getChildIndex(table, r) + 1
         IN  /\ elems'[table].kids = SubSeq(rows, 1, i - 1) \o SubSeq(rows, i + 1, Len(rows))
             /\ Len(elems'[table].kids) = Len(rows) - 1
             /\ t' = t - 1 ]_vars

\* C9: the row of the emptied paragraph has just been removed, the rows
\* before and after it are left in the table
C9_Witness ==
  /\ pc = "loop" /\ cur.cell # null
  /\ elems[cur.cell].type = "TABLE_CELL"
  /\ getParent(cur.cell) # null
  /\ getParent(getParent(cur.cell)) = null
  /\ elems[cur.element].type = "PARAGRAPH"
  /\ \E tb \in DOMAIN elems :
        /\ elems[tb].type = "TABLE"
        /\ Len(elems[tb].kids) = 2
        /\ Len(original[tb].kids) = 3
        /\ elems[tb].kids = <<original[tb].kids[1], original[tb].kids[3]>>

\* C10: a step removes a row from a table only if every cell of the row has
\* an empty text when the step is taken
C10_OnlyEmptyRowsRemoved ==
  [][ \A tb \in DOMAIN elems :
         elems[tb].type = "TABLE" =>
            \A i \in DOMAIN elems[tb].kids :
               (\A j \in DOMAIN elems'[tb].kids : elems'[tb].kids[j] # elems[tb].kids[i])
                  => RowIsEmpty(elems[tb].kids[i]) ]_vars

\* C10: the row check has kept a row that holds a cell with a tag, after the
\* only paragraph of another of its cells was removed
C10_Witness ==
  /\ pc = "loop" /\ cur.cell # null
  /\ elems[cur.cell].type = "TABLE_CELL"
  /\ elems[cur.cell].kids = <<>>
  /\ getParent(cur.cell) # null
  /\ Attached(getParent(cur.cell))
  /\ \E j \in DOMAIN elems[getParent(cur.cell)].kids :
        Occurs(<<LT>>, getText(elems[getParent(cur.cell)].kids[j]))

\* the span a tag had in the document merge was called on
ScannedText(i) ==
  SubSeq(original[tags[i].range.element].text,
         tags[i].range.startOffset + 1, tags[i].range.endOffsetInclusive + 1)

\* C11: a step that scans a part finds the document as it was when merge was
\* called and does not change it; a step that changes the document is taken
\* after the last part is scanned and adds no tag; every tag of the flat
\* sequence is text of the document merge was called on
C11_ScanBeforeMutation ==
  /\ [][ (p' # p \/ tags' # tags) => (elems = original /\ elems' = elems) ]_vars
  /\ [][ elems' # elems =>
           (pc # "start" /\ p = Len(parts) /\ p' = p /\ tags' = tags) ]_vars
  /\ [](\A i \in DOMAIN tags : ScannedText(i) = tags[i].full)

\* C11: merge has ended, the document was changed, and the value put in place
\* of a tag holds a construct that a scan would find now but that is no tag
\* of the flat sequence
C11_Witness ==
  /\ pc = "done"
  /\ elems # original
  /\ map[A] = Construct(<<>>, B, <<>>)
  /\ \E i \in DOMAIN Rescan :
        /\ Rescan[i].tag = B
        /\ \A j \in DOMAIN tags :
              tags[j].range.element = Rescan[i].range.element => tags[j].tag # B

\* the indexes hi, hi - 1, ..., lo
RECURSIVE Down(_, _)
Down(hi, lo) == IF hi < lo THEN <<>> ELSE <<hi>> \o Down(hi - 1, lo)

\* C12: the replace loop takes the tags of the flat sequence one by one from
\* the last index down, each index once, and merge ends only when the tag at
\* index 0 has been taken
C12_EachTagOnceDownward ==
  /\ pc = "loop" => consumed = Down(Len(tags) - 1, t + 1)
  /\ pc \in {"replace", "items", "cleanup", "row"} => consumed = Down(Len(tags) - 1, t)
  /\ pc \in {"done", "failed"} => consumed = Down(Len(tags) - 1, 0)

\* the place of a part in the document: header, body, footer, then the
\* footnotes in the order of the document
PartRank(x) ==
  IF x = document.header THEN 1
  ELSE IF x = document.body THEN 2
  ELSE IF x = document.footer THEN 3
  ELSE 3 + CHOOSE k \in DOMAIN document.footnotes : document.footnotes[k] = x

\* C13: the parts returned are exactly the header, body and footer the
\* document has and the contents of its footnotes, each once, in the order
\* header, body, footer, footnotes in document order, and the document is
\* as it was when the parts are returned
C13_PartsInOrder ==
  pc # "start" =>
    /\ {parts[i] : i \in DOMAIN parts}
         = ({document.header, document.body, document.footer} \ {null})
             \cup {document.footnotes[k] : k \in DOMAIN document.footnotes}
    /\ \A i, j \in DOMAIN parts : i < j => PartRank(parts[i]) < PartRank(parts[j])
    /\ (pc = "scan" /\ p = 0) => elems = original

\* C13: the parts of a document with a header, a footer and two footnotes
\* have been returned
C13_Witness ==
  /\ pc = "scan" /\ p = 0
  /\ document.header # null /\ document.footer # null
  /\ Len(document.footnotes) = 2
  /\ Len(parts) = 5

\* the 1-based place of a paragraph or list item among those of a part
PlaceIn(docPart, id) ==
  CHOOSE k \in DOMAIN TextElements(docPart) : TextElements(docPart)[k] = id

\* C14: every tag of the flat sequence is a match of the pattern in the
\* document as passed; of two tags of one container the later one starts
\* after the last character of the earlier one; the tags of one part follow
\* the order of its containers; and once the scan has ended every position
\* where the pattern matches is the start of a tag
C14_MatchesOrderedDisjoint ==
  /\ \A i \in DOMAIN tags :
        pattern(original[tags[i].range.element].text, tags[i].range.startOffset + 1)
           = tags[i].range.endOffsetInclusive + 1
  /\ \A i, j \in DOMAIN tags :
        (i < j /\ tags[i].range.element = tags[j].range.element)
           => tags[i].range.endOffsetInclusive < tags[j].range.startOffset
  /\ elems = original =>
        \A i, j \in DOMAIN tags :
           (i < j /\ tags[i].part = tags[j].part)
              => PlaceIn(tags[i].part, tags[i].range.element)
                    <= PlaceIn(tags[j].part, tags[j].range.element)
  /\ pc \notin {"start", "scan"} =>
        \A id \in DOMAIN original :
           \A k \in DOMAIN original[id].text :
              pattern(original[id].text, k) > 0
                 => \E i \in DOMAIN tags :
                       /\ tags[i].range.element = id
                       /\ tags[i].range.startOffset = k - 1

\* C14: the scan has ended and two tags that follow each other in the flat
\* sequence are in one container, the later one starting right behind the
\* earlier one
C14_Witness ==
  /\ pc = "loop" /\ elems = original
  /\ \E i \in DOMAIN tags :
        /\ i + 1 \in DOMAIN tags
        /\ tags[i].range.element = tags[i + 1].range.element
        /\ tags[i + 1].range.startOffset = tags[i].range.endOffsetInclusive + 1

\* no character of text s is in set cs
Without(s, cs) == \A k \in DOMAIN s : s[k] \notin cs

\* C15: the full text of every tag of the flat sequence is "<", the prefix,
\* "<", the name, "?" when the tag is optional, ">", the suffix, ">"; the
\* prefix and the suffix hold no "<" and no ">", the name is not empty and
\* holds no "<", ">" or "?", and the text between the outer brackets splits
\* at "<" and ">" into three segments
C15_MatchDecomposes ==
  \A i \in DOMAIN tags :
     /\ tags[i].full = <<LT>> \o tags[i].text1 \o <<LT>> \o tags[i].tag
                         \o (IF tags[i].opt THEN <<QM>> ELSE <<>>)
                         \o <<GT>> \o tags[i].text2 \o <<GT>>
     /\ Without(tags[i].text1, {LT, GT})
     /\ Without(tags[i].text2, {LT, GT})
     /\ Without(tags[i].tag, {LT, GT, QM})
     /\ Len(tags[i].tag) > 0
     /\ Len(split(SubSeq(tags[i].full, 2, Len(tags[i].full) - 1), {LT, GT})) = 3

\* C15: the scan has ended and the flat sequence holds an optional tag with
\* a prefix and a suffix, and a tag that is not optional
C15_Witness ==
  /\ pc = "loop"
  /\ \E i \in DOMAIN tags :
        tags[i].opt /\ Len(tags[i].text1) > 0 /\ Len(tags[i].text2) > 0
  /\ \E i \in DOMAIN tags : ~tags[i].opt

\* the current tag is the whole text of a list item
ItemFullReplacement ==
  /\ elems[cur.element].type = "LIST_ITEM"
  /\ cur.textBefore = tag.full
  /\ tag.text1 = <<>> /\ tag.text2 = <<>>

\* C16: right after the edit of an optional match whose name without the "?"
\* is a key with a non-empty value v, the text of the container is
\* textBefore + prefix + v + suffix + textAfter
C16_OptionalKnownReplaced ==
  (Edited /\ tag.opt /\ tag.tag \in DOMAIN map /\ map[tag.tag] # <<>>)
     => elems[cur.element].text
           = textBeforeSpan \o tag.text1 \o map[tag.tag] \o tag.text2 \o textAfterSpan

\* C16: right after the edit of an optional match whose name without the "?"
\* is a key with a non-empty value v, the text of the container is
\* textBefore + prefix + v + suffix + textAfter, with the first line of v in
\* place of v when the match is the whole text of a list item
C16_OptionalKnownReplacedFirstLine ==
  (Edited /\ tag.opt /\ tag.tag \in DOMAIN map /\ map[tag.tag] # <<>>)
     => elems[cur.element].text
           = textBeforeSpan \o tag.text1
               \o (IF ItemFullReplacement
                   THEN Head(split(map[tag.tag], {NL})) ELSE map[tag.tag])
               \o tag.text2 \o textAfterSpan

\* C16: an optional match with a prefix, whose name is a key with a value of
\* several lines, has just been edited in a paragraph
C16_Witness ==
  /\ Edited /\ tag.opt /\ tag.tag \in DOMAIN map
  /\ Len(split(map[tag.tag], {NL})) > 1
  /\ Len(tag.text1) > 0
  /\ elems[cur.element].type = "PARAGRAPH"
  /\ elems[cur.element].text = tag.text1 \o map[tag.tag]

\* C17: a match is taken as a full replacement only if its full text was the
\* whole text of its container in the document as scanned and its prefix and
\* suffix are empty
C17_FullReplacementAtScan ==
  (pc = "replace" /\ cur.isFullRep)
     => /\ original[cur.element].text = tag.full
        /\ tag.text1 = <<>> /\ tag.text2 = <<>>

\* C17: a match is taken as a full replacement only if its full text is the
\* whole text its container has when the match is processed and its prefix
\* and suffix are empty
C17_FullReplacementWhenProcessed ==
  (pc = "replace" /\ cur.isFullRep)
     => /\ cur.textBefore = tag.full
        /\ tag.text1 = <<>> /\ tag.text2 = <<>>

\* C17: a match of a list item is taken as a full replacement although the
\* item held other text when it was scanned
C17_Witness ==
  /\ pc = "replace" /\ cur.isFullRep /\ cur.isNewItemsCase
  /\ elems[cur.element].type = "LIST_ITEM"
  /\ original[cur.element].text # tag.full
  /\ Len(split(map[tag.tag], {NL})) > 1

\* the table cell that held element id when merge was called, null when none
OriginalCell(id) ==
  IF \E c \in DOMAIN original :
        /\ original[c].type = "TABLE_CELL"
        /\ \E j \in DOMAIN original[c].kids : original[c].kids[j] = id
  THEN CHOOSE c \in DOMAIN original :
        /\ original[c].type = "TABLE_CELL"
        /\ \E j \in DOMAIN original[c].kids : original[c].kids[j] = id
  ELSE null

\* the elements of tree es that are a child of an element
Placed(es) == UNION {{es[q].kids[i] : i \in DOMAIN es[q].kids} : q \in DOMAIN es}

\* C18: a paragraph or list item is taken from its parent only in the
\* emptiness check of the match just edited and is the container of that
\* match; a row is taken from its table only in the row check that follows,
\* and is the row of the cell that container was in; when the next match is
\* about to be edited, no container of an applied match processed before is
\* in the document with an empty text and no row of the document that had
\* such a container removed from one of its cells has all its cells empty;
\* the step that ends merge changes nothing and no step follows it; what was
\* taken from its parent is never put back, and the row check looks at a row
\* of the document
C18_CleanupRightAfterEdit ==
  /\ [][ \A id \in Placed(elems) \ Placed(elems') :
            /\ consumed[Len(consumed)] = t
            /\ \/ pc = "cleanup" /\ id = cur.element /\ id = tag.range.element
               \/ pc = "row" /\ id = getParent(cur.cell) ]_vars
  /\ [](pc = "replace" =>
          /\ \A i \in DOMAIN tags :
                (i > t + 1 /\ ~SkippedTag(i) /\ Attached(tags[i].range.element))
                   => Len(getText(tags[i].range.element)) > 0
          /\ \A i \in DOMAIN tags :
                (/\ i > t + 1 /\ ~SkippedTag(i)
                 /\ OriginalCell(tags[i].range.element) # null
                 /\ getParent(tags[i].range.element) = null
                 /\ Attached(getParent(OriginalCell(tags[i].range.element))))
                   => ~RowIsEmpty(getParent(OriginalCell(tags[i].range.element))))
  /\ [][ pc' = "done" => elems' = elems ]_vars
  /\ [][ pc # "done" ]_vars
  /\ [][ (Placed(elems') \cap DOMAIN elems) \subseteq Placed(elems) ]_vars
  /\ [](pc = "row" => Attached(getParent(cur.cell)))

\* C18: a match is about to be edited after the row of a match processed
\* before was removed from its table
C18_Witness ==
  /\ pc = "replace"
  /\ \E r \in DOMAIN elems : elems[r].type = "TABLE_ROW" /\ ~Attached(r)

\* C19: the step in which a container operation fails changes nothing in the
\* document and no step follows it; after it, the container of every applied
\* match at a higher index is out of the document or has a text that differs
\* from its text as passed, and the container of every match at a lower index
\* is in the document with the full text of the match at the offsets scanned
C19_FailureKeepsEdits ==
  /\ [][ pc' = "failed" => (elems' = elems /\ tags' = tags /\ t' = t) ]_vars
  /\ [][ pc # "failed" ]_vars
  /\ [](pc = "failed" =>
          /\ \A i \in DOMAIN tags :
                (i > t + 1 /\ ~SkippedTag(i)) =>
                   \/ ~Attached(tags[i].range.element)
                   \/ elems[tags[i].range.element].text
                         # original[tags[i].range.element].text
          /\ \A i \in DOMAIN tags :
                i < t + 1 =>
                   /\ Attached(tags[i].range.element)
                   /\ SubSeq(elems[tags[i].range.element].text,
                             tags[i].range.startOffset + 1,
                             tags[i].range.endOffsetInclusive + 1) = tags[i].full)

\* C19: the operation on the list item of a table cell has failed after a
\* match at a higher index was applied and its paragraph removed, with a
\* match at a lower index still to process
C19_Witness ==
  /\ pc = "failed"
  /\ t > 0 /\ t < Len(tags) - 1
  /\ \E i \in DOMAIN tags :
        i > t + 1 /\ ~SkippedTag(i) /\ ~Attached(tags[i].range.element)

\* the paragraph or list item id started with the malformed text when merge
\* was called
StartsMalformed(id) ==
  /\ Len(original[id].text) >= Len(Malformed)
  /\ SubSeq(original[id].text, 1, Len(Malformed)) = Malformed

\* C20: for a paragraph that starts with "<A>", "<<A>", "<A>>" and
\* "<<A?b>>", no tag of the flat sequence starts inside that text, merge does
\* not fail, and the paragraph stays in the document with that text at its
\* start
C20_MalformedLeftAlone ==
  \A id \in DOMAIN original :
     StartsMalformed(id) =>
        /\ \A i \in DOMAIN tags :
              tags[i].range.element = id => tags[i].range.startOffset >= Len(Malformed)
        /\ pc # "failed"
        /\ Attached(id)
        /\ Len(elems[id].text) >= Len(Malformed)
        /\ SubSeq(elems[id].text, 1, Len(Malformed)) = Malformed

\* C20: merge has returned after replacing the construct that follows the
\* malformed text of a paragraph by a value of several lines
C20_Witness ==
  /\ pc = "done"
  /\ Len(split(map[A], {NL})) > 1
  /\ \E id \in DOMAIN original :
        /\ StartsMalformed(id)
        /\ elems[id].text = Malformed \o map[A]

\* the attributes of the characters k .. k + n - 1 of the container of the
\* current tag as they were just before the edit
fmtBeforeAt(k, n) == SubSeq(cur.fmtBefore, k, k + n - 1)

\* C21: right after the edit of a match, the characters before and behind
\* the span are the same, in the same order, with the same attributes; when
\* the value put in place is not empty, the characters of the prefix and of
\* the suffix have the attributes they had inside the construct and the
\* characters of the value have no attribute set
C21_OnlySpanChanged ==
  Edited =>
    LET txt  == elems[cur.element].text
        fmt  == elems[cur.element].fmt
        nb   == cur.first
        na   == Len(cur.textBefore) - cur.last - 1
        n1   == Len(tag.text1)
        n2   == Len(tag.text2)
        nv   == Len(cur.tagValue)
    IN  /\ Len(fmt) = Len(txt)
        /\ SubSeq(txt, 1, nb) = textBeforeSpan
        /\ SubSeq(fmt, 1, nb) = fmtBeforeAt(1, nb)
        /\ SubSeq(txt, Len(txt) - na + 1, Len(txt)) = textAfterSpan
        /\ SubSeq(fmt, Len(fmt) - na + 1, Len(fmt)) = fmtBeforeAt(cur.last + 2, na)
        /\ IF nv > 0
           THEN /\ Len(txt) = nb + n1 + nv + n2 + na
                /\ SubSeq(txt, nb + 1, nb + n1) = tag.text1
                /\ SubSeq(fmt, nb + 1, nb + n1) = fmtBeforeAt(nb + 2, n1)
                /\ SubSeq(fmt, nb + n1 + 1, nb + n1 + nv) = Ambient(cur.tagValue)
                /\ SubSeq(txt, nb + n1 + nv + 1, nb + n1 + nv + n2) = tag.text2
                /\ SubSeq(fmt, nb + n1 + nv + 1, nb + n1 + nv + n2)
                      = fmtBeforeAt(cur.last + 1 - n2, n2)
           ELSE Len(txt) = nb + na

\* C21: a match with a prefix and a suffix, between other text of a
\* paragraph, has just been replaced by a value that is not empty
C21_Witness ==
  /\ Edited
  /\ cur.first > 0 /\ cur.last + 1 < Len(cur.textBefore)
  /\ Len(tag.text1) > 0 /\ Len(tag.text2) > 0
  /\ Len(cur.tagValue) > 0
  /\ elems[cur.element].fmt
        = <<"BOLD", "PLAIN">> \o Ambient(cur.tagValue) \o <<"BOLD", "PLAIN">>

\* C22: once the match of a list item of a table cell, whose whole text is
\* the construct, is processed with a value of several lines, merge has not
\* failed and, when the first line is not empty, the children of the cell
\* right after the item are list items with the other lines, in their order
C22_ExpansionInsideCell ==
  \A i \in DOMAIN tags :
     LET el    == tags[i].range.element
         cell  == OriginalCell(el)
         lines == split(map[tags[i].tag], {NL})
     IN  (/\ Processed(i)
          /\ original[el].type = "LIST_ITEM"
          /\ cell # null
          /\ original[el].text = tags[i].full
          /\ tags[i].text1 = <<>> /\ tags[i].text2 = <<>>
          /\ tags[i].tag \in DOMAIN map
          /\ Len(lines) > 1)
         => /\ pc # "failed"
            /\ lines[1] # <<>> =>
                  \A k \in 2..Len(lines) :
                     LET j == getChildIndex(cell, el) + k
                     IN  /\ j \in DOMAIN elems[cell].kids
                         /\ elems[elems[cell].kids[j]].type = "LIST_ITEM"
                         /\ elems[elems[cell].kids[j]].text = lines[k]

\* the current tag has a key with a value of several lines and is in a
\* paragraph, or in a list item that holds other text or with a prefix or
\* suffix
MultiLineInPlace ==
  /\ tag.tag \in DOMAIN map
  /\ Len(split(map[tag.tag], {NL})) > 1
  /\ ~ItemFullReplacement

Nested == <<LT>> \o Construct(<<>>, A, <<>>) \o <<GT>>

\* C24: in a paragraph with text "<<<A>>>" the scan finds one match, the
\* construct "<<A>>" from the second character on, and when the value v of A
\* is not empty the text of the paragraph is "<" + v + ">" when merge returns
C24_InnermostOnly ==
  \A id \in DOMAIN original :
     original[id].text = Nested =>
        /\ pc \notin {"start", "scan"} =>
              /\ Cardinality({i \in DOMAIN tags : tags[i].range.element = id}) = 1
              /\ \A i \in DOMAIN tags :
                    tags[i].range.element = id =>
                       /\ tags[i].full = Construct(<<>>, A, <<>>)
                       /\ tags[i].range.startOffset = 1
                       /\ tags[i].range.endOffsetInclusive = 5
        /\ (pc = "done" /\ map[A] # <<>>) =>
              elems[id].text = <<LT>> \o map[A] \o <<GT>>

\* C24: merge has returned from a document with the paragraph "<<<A>>>" and
\* a value of three lines for A
C24_Witness ==
  /\ pc = "done"
  /\ Len(split(map[A], {NL})) = 3
  /\ \E id \in DOMAIN original :
        /\ original[id].text = Nested
        /\ elems[id].text = <<LT>> \o map[A] \o <<GT>>

\* the match at 1-based index i is the one the replace loop has just processed
JustProcessed(i) ==
  \/ pc = "loop" /\ i = t + 2
  \/ pc = "failed" /\ i = t + 1

\* the parent element id had when merge was called, and its place there
OriginalParent(id) ==
  CHOOSE q \in DOMAIN original : \E j \in DOMAIN original[q].kids : original[q].kids[j] = id
OriginalPlace(id) ==
  CHOOSE j \in DOMAIN original[OriginalParent(id)].kids :
     original[OriginalParent(id)].kids[j] = id

\* the number of list items of the document when merge was called
OriginalListItemCount ==
  Cardinality({id \in DOMAIN original : original[id].type = "LIST_ITEM"})

\* C25: when the match of a list item whose whole text is the construct has
\* just been processed with a value of two lines or more whose first line is
\* empty, the item is out of the document, a new list item with the second
\* line is at the place the item had, and the document has (number of
\* lines - 2) more list items
C25_EmptyFirstLineExpansion ==
  \A i \in DOMAIN tags :
     LET el    == tags[i].range.element
         lines == split(map[tags[i].tag], {NL})
     IN  (/\ JustProcessed(i)
          /\ original[el].type = "LIST_ITEM"
          /\ original[el].text = tags[i].full
          /\ tags[i].text1 = <<>> /\ tags[i].text2 = <<>>
          /\ tags[i].tag \in DOMAIN map
          /\ Len(lines) >= 2
          /\ lines[1] = <<>>)
         => LET kids == elems[OriginalParent(el)].kids
                j    == OriginalPlace(el)
            IN  /\ ~Attached(el)
                /\ j \in DOMAIN kids
                /\ kids[j] \notin DOMAIN original
                /\ elems[kids[j]].type = "LIST_ITEM"
                /\ elems[kids[j]].text = lines[2]
                /\ ListItemCount = OriginalListItemCount + Len(lines) - 2

\* the list items merge has inserted
Inserted == DOMAIN elems \ DOMAIN original

\* C26: the step that creates the items creates one per remaining line, the
\* empty lines included, each with the text of its line; an inserted item is
\* in the document in every later state and no step changes it
C26_InsertedEmptyItemsKept ==
  /\ [][ (pc = "items" /\ pc' = "cleanup" /\ cur.isNewItemsCase)
            => /\ Len(elems') = Len(elems) + Len(cur.lines)
               /\ \A k \in DOMAIN cur.lines :
                     /\ elems'[Len(elems) + k].type = "LIST_ITEM"
                     /\ elems'[Len(elems) + k].text = cur.lines[k] ]_vars
  /\ [][ \A id \in Inserted : elems'[id] = elems[id] ]_vars
  /\ [](\A id \in Inserted : Attached(id))

\* C26: merge has returned and the document holds an inserted list item with
\* an empty text, for the blank line inside the value of A
C26_Witness ==
  /\ pc = "done"
  /\ map[A] = <<"v", NL, NL, "w">>
  /\ \E id \in Inserted : elems[id].text = <<>> /\ Attached(id)

\* the value merge puts in place of the tag at 1-based index i is empty
ResolvesToEmpty(i) ==
  IF tags[i].tag \in DOMAIN map THEN map[tags[i].tag] = <<>> ELSE tags[i].opt

\* when merge was called, cell c held one paragraph whose whole text is a
\* construct without prefix and suffix, the tag at 1-based index i
OnlyConstruct(c, i) ==
  /\ Len(original[c].kids) = 1
  /\ original[original[c].kids[1]].type = "PARAGRAPH"
  /\ tags[i].range.element = original[c].kids[1]
  /\ tags[i].full = original[original[c].kids[1]].text
  /\ tags[i].text1 = <<>> /\ tags[i].text2 = <<>>

\* when merge was called, cell c held one paragraph that is only a construct
\* that resolves to the empty text / only a construct that is skipped / no
\* text
EmptyingCell(c) == \E i \in DOMAIN tags : OnlyConstruct(c, i) /\ ResolvesToEmpty(i)
SkippedCell(c) == \E i \in DOMAIN tags : OnlyConstruct(c, i) /\ SkippedTag(i)
EmptyCell(c) ==
  \A j \in DOMAIN original[c].kids : original[original[c].kids[j]].text = <<>>

\* the cells of row r when merge was called
CellsOf(r) == {original[r].kids[j] : j \in DOMAIN original[r].kids}

\* C27: a row of which two cells or more hold one paragraph that is only a
\* construct resolving to the empty text, the other cells being empty, is
\* taken from its table by the row check of the match of the leftmost of
\* these cells and is out of its table when merge returns; when at least one
\* of these cells holds instead a construct that is skipped, the row is in
\* the document when merge returns
C27_RowOfEmptiedCells ==
  /\ [][ \A r \in Placed(elems) \ Placed(elems') :
            (/\ \A c \in CellsOf(r) : EmptyingCell(c) \/ EmptyCell(c)
             /\ Cardinality({c \in CellsOf(r) : EmptyingCell(c)}) >= 2)
               => /\ EmptyingCell(cur.cell)
                  /\ \A j \in DOMAIN original[r].kids :
                        EmptyingCell(original[r].kids[j])
                           => getChildIndex(r, cur.cell) + 1 <= j ]_vars
  /\ [](pc = "done" =>
          \A r \in DOMAIN original :
             original[r].type = "TABLE_ROW" =>
                /\ (/\ \A c \in CellsOf(r) : EmptyingCell(c) \/ EmptyCell(c)
                    /\ Cardinality({c \in CellsOf(r) : EmptyingCell(c)}) >= 2)
                      => getParent(r) = null
                /\ (/\ \A c \in CellsOf(r) :
                          EmptyingCell(c) \/ SkippedCell(c) \/ EmptyCell(c)
                    /\ Cardinality({c \in CellsOf(r) :
                                       EmptyingCell(c) \/ SkippedCell(c)}) >= 2
                    /\ \E c \in CellsOf(r) : SkippedCell(c))
                      => Attached(r))

\* C27: merge has returned and the row whose two cells held one construct
\* each, both resolving to the empty text, is out of its table
C27_Witness ==
  /\ pc = "done"
  /\ \E r \in DOMAIN original :
        /\ original[r].type = "TABLE_ROW"
        /\ Cardinality({c \in CellsOf(r) : EmptyingCell(c)}) = 2
        /\ getParent(r) = null

\* paragraph or list item id holds a match that is applied
HoldsApplied(id) ==
  \E i \in DOMAIN tags : tags[i].range.element = id /\ ~SkippedTag(i)

\* the paragraphs and list items below element id when merge was called
RECURSIVE OriginalContainers(_)
OriginalContainers(id) ==
  IF original[id].type \in {"PARAGRAPH", "LIST_ITEM"} THEN {id}
  ELSE UNION {OriginalContainers(original[id].kids[j]) : j \in DOMAIN original[id].kids}

StartsNoName(id) ==
  /\ Len(original[id].text) >= Len(NoName)
  /\ SubSeq(original[id].text, 1, Len(NoName)) = NoName

\* C29: no tag of the flat sequence has an empty name; for a paragraph that
\* starts with "<<>>", "<<?>>" and "<a<>b>", no tag starts inside that text
\* and the paragraph stays in the document with that text at its start,
\* whether the empty name is a key of the map or not
C29_NoEmptyName ==
  /\ \A i \in DOMAIN tags : tags[i].tag # <<>>
  /\ \A id \in DOMAIN original :
        StartsNoName(id) =>
           /\ \A i \in DOMAIN tags :
                 tags[i].range.element = id => tags[i].range.startOffset >= Len(NoName)
           /\ Attached(id)
           /\ Len(elems[id].text) >= Len(NoName)
           /\ SubSeq(elems[id].text, 1, Len(NoName)) = NoName

\* C29: merge has returned with a map that has the empty name as a key, and
\* the paragraph is the constructs without name followed by the value of A
C29_Witness ==
  /\ pc = "done"
  /\ <<>> \in DOMAIN map
  /\ \E id \in DOMAIN original :
        /\ StartsNoName(id)
        /\ elems[id].text = NoName \o map[A]

====
